---- MODULE Spec2Model ----
(***************************************************************************)
(* Model of the shortest-path engine of Dijkstras-vs-BFS:                  *)
(*   graph_reader.rs  edges_to_adjacency_list,                             *)
(*                    edges_to_weighted_adjacency_list                     *)
(*   graph_algos.rs   breadth_first_search, dijkstras,                     *)
(*                    run_random_test_bfs, run_random_test_dijkstras       *)
(*   main.rs          main, calc_distance_stats                            *)
(*                                                                         *)
(* A HashMap is a function whose DOMAIN is its key set; indexing a HashMap *)
(* with a key it does not hold (dists[&k]) panics.  A Vec is a sequence.   *)
(* u32 is modelled with Width bits instead of 32 (TLC integers are 32-bit  *)
(* signed, so 2^32 - 1 is not representable); U32_MAX is the largest value *)
(* of that width.  An arithmetic overflow panics when the build has        *)
(* overflow checks (debug profile) and wraps otherwise (release profile).  *)
(***************************************************************************)
EXTENDS Bags, FiniteSets, Integers, Sequences, TLC

\* ------------------------------------------------------------------ bounds
MaxVertex == 3
MaxEdges == 2
MaxArcs == 2
MaxWeight == 1
Width == 4

Vertex == 1..MaxVertex
U32_MAX == 2^Width - 1

VARIABLES
    edges,                    \* main: Vec<(u32,u32)> read from the input
    adjacency_list,           \* HashMap<u32, Vec<u32>>
    weighted_adj_list,        \* HashMap<u32, Vec<(u32,u32)>>
    overflow_checks,          \* build profile: TRUE = overflow panics, FALSE = wraps
    pc,                       \* position of the program
    panic_at,                 \* the position at which the program panicked ("" = none)
    start_node,               \* argument of the single-source run
    dists,                    \* breadth_first_search: dists
    queue,                    \* breadth_first_search: queue (VecDeque)
    dj_dists,                 \* dijkstras: dists
    p_queue,                  \* dijkstras: p_queue (BinaryHeap of NodeCost), a bag
    popped,                   \* dijkstras: the entry bound by the last p_queue.pop()
    num_vertices,             \* sample size passed to run_random_test_*
    vertices,                 \* run_random_test_*: the shuffled copy of the keys
    i,                        \* run_random_test_*: outer loop index (0-based)
    shortest_dists,           \* Vec<DistancePair> returned by run_random_test_bfs
    dijkstras_shortest_dists, \* Vec<DistancePair> returned by run_random_test_dijkstras
    bfs_stats,                \* (num_distances, total_distance) of the BFS records
    dijkstras_stats           \* (num_distances, total_distance) of the Dijkstra records

vars == <<edges, adjacency_list, weighted_adj_list, overflow_checks, pc, panic_at,
          start_node, dists, queue, dj_dists, p_queue, popped,
          num_vertices, vertices, i, shortest_dists, dijkstras_shortest_dists,
          bfs_stats, dijkstras_stats>>

engine_vars == <<start_node, dists, queue, dj_dists, p_queue, popped>>
harness_vars == <<num_vertices, vertices, i, shortest_dists, dijkstras_shortest_dists,
                  bfs_stats, dijkstras_stats>>

\* ------------------------------------------------------------ generic helpers
Range(s) == {s[n] : n \in 1..Len(s)}

SeqsUpTo(S, n) == UNION {[1..m -> S] : m \in 0..n}

EmptyMap == [k \in {} |-> <<>>]

\* adjacency_list.get(&k).unwrap_or(&vec![])
get_or_empty(m, k) == IF k \in DOMAIN m THEN m[k] ELSE <<>>

\* u32 addition: whether a + b exceeds the type, and its wrapped value
u32_overflows(a, b) == a + b > U32_MAX
u32_wrapping(a, b) == (a + b) % (U32_MAX + 1)

\* ------------------------------------------------------------ graph_reader.rs
\* adjacency_list.entry(k).or_insert(vec![]).push(v)
entry_push(m, k, v) ==
    IF k \in DOMAIN m THEN [m EXCEPT ![k] = Append(@, v)]
    ELSE [x \in DOMAIN m \cup {k} |-> IF x = k THEN <<v>> ELSE m[x]]

\* entry(k).or_insert(vec![]) without a push
entry_only(m, k) ==
    IF k \in DOMAIN m THEN m
    ELSE [x \in DOMAIN m \cup {k} |-> IF x = k THEN <<>> ELSE m[x]]

\* a builder that records the edge in the source's list only
insert_edge_one_way(m, src_node, dst_node) ==
    entry_only(entry_push(m, src_node, dst_node), dst_node)

\* body of the loop of edges_to_adjacency_list: both directions are recorded
insert_edge(m, src_node, dst_node) ==
    entry_push(entry_push(m, src_node, dst_node), dst_node, src_node)

RECURSIVE adjacency_fold(_, _, _)
adjacency_fold(es, n, m) ==
    IF n > Len(es) THEN m
    ELSE adjacency_fold(es, n + 1, insert_edge(m, es[n][1], es[n][2]))

edges_to_adjacency_list(es) == adjacency_fold(es, 1, EmptyMap)

\* a conversion that assigns weight 2 to every edge
edges_to_weighted_adjacency_list_w2(original_adj_list) ==
    [node \in DOMAIN original_adj_list |->
        [n \in 1..Len(original_adj_list[node]) |-> <<original_adj_list[node][n], 2>>]]

edges_to_weighted_adjacency_list(original_adj_list) ==
    [node \in DOMAIN original_adj_list |->
        [n \in 1..Len(original_adj_list[node]) |-> <<original_adj_list[node][n], 1>>]]

\* ------------------------------------------------ graph_algos.rs: BFS engine
\* every key at u32::MAX, then dists.insert(start_node, 0)
init_hashmap(adj, start) ==
    [node \in DOMAIN adj \cup {start} |-> IF node = start THEN 0 ELSE U32_MAX]

\* state of a run: [dists, queue, panicked]
bfs_start(adj, start) ==
    [dists |-> init_hashmap(adj, start), queue |-> <<start>>, panicked |-> FALSE]

\* a relaxation that also fires when the neighbour already has that distance
bfs_visit_or_equal(curr_node, neighbor, st) ==
    IF u32_overflows(st.dists[curr_node], 1) /\ overflow_checks
    THEN [st EXCEPT !.panicked = TRUE]
    ELSE LET new_dist == u32_wrapping(st.dists[curr_node], 1) IN
         IF neighbor \notin DOMAIN st.dists
         THEN [st EXCEPT !.panicked = TRUE]
         ELSE IF new_dist <= st.dists[neighbor]
              THEN [st EXCEPT !.dists[neighbor] = new_dist,
                              !.queue = Append(@, neighbor)]
              ELSE st

\* body of the for loop over the neighbours of curr_node
bfs_visit(curr_node, neighbor, st) ==
    IF u32_overflows(st.dists[curr_node], 1) /\ overflow_checks
    THEN [st EXCEPT !.panicked = TRUE]
    ELSE LET new_dist == u32_wrapping(st.dists[curr_node], 1) IN
         IF neighbor \notin DOMAIN st.dists
         THEN [st EXCEPT !.panicked = TRUE]
         ELSE IF new_dist < st.dists[neighbor]
              THEN [st EXCEPT !.dists[neighbor] = new_dist,
                              !.queue = Append(@, neighbor)]
              ELSE st

RECURSIVE bfs_neighbors(_, _, _, _)
bfs_neighbors(nbrs, n, curr_node, st) ==
    IF n > Len(nbrs) \/ st.panicked THEN st
    ELSE bfs_neighbors(nbrs, n + 1, curr_node, bfs_visit(curr_node, nbrs[n], st))

\* one iteration of `while let Some(curr_node) = queue.pop_front()`
bfs_iteration(adj, st) ==
    LET curr_node == Head(st.queue) IN
    bfs_neighbors(get_or_empty(adj, curr_node), 1, curr_node,
                  [st EXCEPT !.queue = Tail(@)])

RECURSIVE bfs_loop(_, _)
bfs_loop(adj, st) ==
    IF st.panicked \/ st.queue = <<>> THEN st
    ELSE bfs_loop(adj, bfs_iteration(adj, st))

\* the whole call; .dists is the returned table unless .panicked
breadth_first_search(adj, start) == bfs_loop(adj, bfs_start(adj, start))

\* ------------------------------------------- graph_algos.rs: Dijkstra engine
NodeCost(node, cost) == <<node, cost>>

\* BinaryHeap::pop under the reversed Ord of NodeCost: an entry of least cost;
\* the order among entries of equal cost is left to the heap
pop_candidates(pq) ==
    {e \in BagToSet(pq) : \A f \in BagToSet(pq) : e[2] <= f[2]}

dj_start(adj, start) ==
    [dists |-> init_hashmap(adj, start),
     p_queue |-> SetToBag({NodeCost(start, 0)}),
     panicked |-> FALSE]

\* a relaxation that forgets the cost already paid to reach curr_node
dj_visit_no_base(curr_cost, nb, st) ==
    LET new_cost == nb[2] IN
    IF nb[1] \notin DOMAIN st.dists
    THEN [st EXCEPT !.panicked = TRUE]
    ELSE IF new_cost < st.dists[nb[1]]
         THEN [st EXCEPT !.dists[nb[1]] = new_cost,
                         !.p_queue = @ (+) SetToBag({NodeCost(nb[1], new_cost)})]
         ELSE st

\* body of the for loop over the (neighbor, weight) entries of curr_node
dj_visit(curr_cost, nb, st) ==
    IF u32_overflows(curr_cost, nb[2]) /\ overflow_checks
    THEN [st EXCEPT !.panicked = TRUE]
    ELSE LET new_cost == u32_wrapping(curr_cost, nb[2]) IN
         IF nb[1] \notin DOMAIN st.dists
         THEN [st EXCEPT !.panicked = TRUE]
         ELSE IF new_cost < st.dists[nb[1]]
              THEN [st EXCEPT !.dists[nb[1]] = new_cost,
                              !.p_queue = @ (+) SetToBag({NodeCost(nb[1], new_cost)})]
              ELSE st

RECURSIVE dj_neighbors(_, _, _, _)
dj_neighbors(nbrs, n, curr_cost, st) ==
    IF n > Len(nbrs) \/ st.panicked THEN st
    ELSE dj_neighbors(nbrs, n + 1, curr_cost, dj_visit(curr_cost, nbrs[n], st))

\* one iteration of `while let Some(NodeCost(curr_node, curr_cost)) = p_queue.pop()`
\* in which the heap hands out entry e
dj_iteration(adj, st, e) ==
    LET rest == [st EXCEPT !.p_queue = @ (-) SetToBag({e})] IN
    IF e[2] > rest.dists[e[1]] THEN rest
    ELSE dj_neighbors(get_or_empty(adj, e[1]), 1, e[2], rest)

RECURSIVE dj_loop(_, _)
dj_loop(adj, st) ==
    IF st.panicked \/ BagToSet(st.p_queue) = {} THEN {st}
    ELSE UNION {dj_loop(adj, dj_iteration(adj, st, e)) : e \in pop_candidates(st.p_queue)}

\* the whole call: the final states of all pop orders the heap may take
dijkstras(adj, start) == dj_loop(adj, dj_start(adj, start))

\* ----------------------------------------------------- single-source runs
NoEntry == <<>>

EngineIdle ==
    /\ start_node = 0 /\ dists = EmptyMap /\ queue = <<>>
    /\ dj_dists = EmptyMap /\ p_queue = EmptyBag /\ popped = NoEntry

HarnessIdle ==
    /\ num_vertices = 0 /\ vertices = <<>> /\ i = 0
    /\ shortest_dists = <<>> /\ dijkstras_shortest_dists = <<>>
    /\ bfs_stats = <<>> /\ dijkstras_stats = <<>>

\* after init_hashmap and queue.push_back(start_node) of breadth_first_search
EngineEntered(start) ==
    /\ start_node = start
    /\ dists = init_hashmap(adjacency_list, start)
    /\ queue = <<start>>
    /\ dj_dists = EmptyMap /\ p_queue = EmptyBag /\ popped = NoEntry
    /\ pc = "breadth_first_search" /\ panic_at = ""

\* The two engines are applied one after the other to the same graph and start
\* vertex; a panic of breadth_first_search is recorded in panic_at and the
\* dijkstras call is still made ("both" = each call panicked).
\* a graph read from an edge list, as main builds it
Init ==
    /\ edges \in SeqsUpTo(Vertex \X Vertex, MaxEdges)
    /\ adjacency_list = edges_to_adjacency_list(edges)
    /\ weighted_adj_list = edges_to_weighted_adjacency_list(adjacency_list)
    /\ overflow_checks \in BOOLEAN
    /\ \E start \in DOMAIN adjacency_list : EngineEntered(start)
    /\ HarnessIdle

breadth_first_search_loop ==
    /\ pc = "breadth_first_search"
    /\ queue # <<>>
    /\ LET st == bfs_iteration(adjacency_list,
                               [dists |-> dists, queue |-> queue, panicked |-> FALSE]) IN
       /\ dists' = st.dists
       /\ queue' = st.queue
       /\ pc' = IF st.panicked THEN "call_dijkstras" ELSE pc
       /\ panic_at' = IF st.panicked THEN "breadth_first_search" ELSE panic_at
    /\ UNCHANGED <<edges, adjacency_list, weighted_adj_list, overflow_checks,
                   start_node, dj_dists, p_queue, popped>>
    /\ UNCHANGED harness_vars

breadth_first_search_return ==
    /\ pc = "breadth_first_search"
    /\ queue = <<>>
    /\ pc' = "call_dijkstras"
    /\ UNCHANGED <<edges, adjacency_list, weighted_adj_list, overflow_checks, panic_at>>
    /\ UNCHANGED engine_vars
    /\ UNCHANGED harness_vars

dijkstras_enter ==
    /\ pc = "call_dijkstras"
    /\ LET st == dj_start(weighted_adj_list, start_node) IN
       /\ dj_dists' = st.dists
       /\ p_queue' = st.p_queue
    /\ pc' = "dijkstras"
    /\ UNCHANGED <<edges, adjacency_list, weighted_adj_list, overflow_checks, panic_at,
                   start_node, dists, queue, popped>>
    /\ UNCHANGED harness_vars

dijkstras_loop ==
    /\ pc = "dijkstras"
    /\ \E e \in pop_candidates(p_queue) :
        LET st == dj_iteration(weighted_adj_list,
                               [dists |-> dj_dists, p_queue |-> p_queue, panicked |-> FALSE],
                               e) IN
        /\ popped' = e
        /\ dj_dists' = st.dists
        /\ p_queue' = st.p_queue
        /\ pc' = IF st.panicked THEN "done" ELSE pc
        /\ panic_at' = IF st.panicked
                       THEN (IF panic_at = "" THEN "dijkstras" ELSE "both")
                       ELSE panic_at
    /\ UNCHANGED <<edges, adjacency_list, weighted_adj_list, overflow_checks,
                   start_node, dists, queue>>
    /\ UNCHANGED harness_vars

dijkstras_return ==
    /\ pc = "dijkstras"
    /\ BagToSet(p_queue) = {}
    /\ pc' = "done"
    /\ UNCHANGED <<edges, adjacency_list, weighted_adj_list, overflow_checks, panic_at>>
    /\ UNCHANGED engine_vars
    /\ UNCHANGED harness_vars

Next ==
    \/ breadth_first_search_loop
    \/ breadth_first_search_return
    \/ dijkstras_enter
    \/ dijkstras_loop
    \/ dijkstras_return

Spec == Init /\ [][Next]_vars

\* ------------------------------------------- engines on an arbitrary mapping
\* the mapping whose key set is keys and whose entries are the arcs
\* <<src, dst, weight>> in the order given
mapping_of(keys, arcs) ==
    [k \in keys |->
        LET mine == SelectSeq(arcs, LAMBDA a : a[1] = k) IN
        [n \in 1..Len(mine) |-> <<mine[n][2], mine[n][3]>>]]

unweighted_of(wadj) ==
    [k \in DOMAIN wadj |-> [n \in 1..Len(wadj[k]) |-> wadj[k][n][1]]]

\* breadth_first_search and dijkstras applied to any mapping and any start:
\* keys need not cover the vertices named in neighbour lists, weights are
\* 0..MaxWeight
InitMapping ==
    /\ edges = <<>>
    /\ \E keys \in SUBSET Vertex :
       \E arcs \in SeqsUpTo(keys \X Vertex \X (0..MaxWeight), MaxArcs) :
          weighted_adj_list = mapping_of(keys, arcs)
    /\ adjacency_list = unweighted_of(weighted_adj_list)
    /\ overflow_checks \in BOOLEAN
    /\ \E start \in Vertex : EngineEntered(start)
    /\ HarnessIdle

SpecMapping == InitMapping /\ [][Next]_vars

\* ------------------------------------------- graph_algos.rs: sampling harness
DistancePair(n1, n2, d) == [node_1 |-> n1, node_2 |-> n2, distance |-> d]

\* an assert that lets one vertex too many through
sample_fits_off_by_one(num, adj) == num <= Cardinality(DOMAIN adj) + 1

\* the assert! at the head of run_random_test_bfs / run_random_test_dijkstras
sample_fits(num, adj) == num <= Cardinality(DOMAIN adj)

\* vertices.shuffle(&mut rng): every order of the keys
shuffles(adj) ==
    {p \in [1..Cardinality(DOMAIN adj) -> DOMAIN adj] :
        \A a, b \in 1..Cardinality(DOMAIN adj) : a # b => p[a] # p[b]}

\* &vertices[..num_vertices]
chosen_vertices == SubSeq(vertices, 1, num_vertices)

\* an inner loop that starts at j = i
inner_pairs_from_i(chosen, ii, tbl) ==
    [n \in 1..(Len(chosen) - ii) |->
        DistancePair(chosen[ii + 1], chosen[ii + n], tbl[chosen[ii + n]])]

\* an inner loop that looks up the distance of start_node instead of end_node
inner_pairs_start_lookup(chosen, ii, tbl) ==
    [n \in 1..(Len(chosen) - (ii + 1)) |->
        DistancePair(chosen[ii + 1], chosen[ii + 1 + n], tbl[chosen[ii + 1]])]

\* the inner loop `for j in (i + 1)..num_vertices` for outer index ii (0-based):
\* one record per later sample vertex, with the distance looked up in tbl
inner_pairs(chosen, ii, tbl) ==
    [n \in 1..(Len(chosen) - (ii + 1)) |->
        DistancePair(chosen[ii + 1], chosen[ii + 1 + n], tbl[chosen[ii + 1 + n]])]

\* dists[&end_node] finds every later sample vertex in the table
inner_lookups_ok(chosen, ii, tbl) ==
    \A n \in 1..(Len(chosen) - (ii + 1)) : chosen[ii + 1 + n] \in DOMAIN tbl

panic(at) ==
    /\ pc' = "panicked"
    /\ panic_at' = at

run_random_test_bfs_assert ==
    /\ pc = "run_random_test_bfs"
    /\ IF sample_fits(num_vertices, adjacency_list)
       THEN pc' = "bfs_shuffle" /\ UNCHANGED panic_at
       ELSE panic("run_random_test_bfs")
    /\ UNCHANGED <<edges, adjacency_list, weighted_adj_list, overflow_checks>>
    /\ UNCHANGED engine_vars
    /\ UNCHANGED harness_vars

run_random_test_bfs_shuffle ==
    /\ pc = "bfs_shuffle"
    /\ \E p \in shuffles(adjacency_list) :
        /\ vertices' = p
        /\ IF num_vertices <= Len(p)
           THEN pc' = "bfs_loop" /\ UNCHANGED panic_at
           ELSE panic("bfs_shuffle")
    /\ i' = 0
    /\ shortest_dists' = <<>>
    /\ UNCHANGED <<edges, adjacency_list, weighted_adj_list, overflow_checks>>
    /\ UNCHANGED engine_vars
    /\ UNCHANGED <<num_vertices, dijkstras_shortest_dists, bfs_stats, dijkstras_stats>>

\* one iteration of the outer loop: a full single-source run, then the inner loop
run_random_test_bfs_loop ==
    /\ pc = "bfs_loop"
    /\ i < num_vertices
    /\ LET r == breadth_first_search(adjacency_list, chosen_vertices[i + 1]) IN
       IF ~r.panicked /\ inner_lookups_ok(chosen_vertices, i, r.dists)
       THEN /\ shortest_dists' = shortest_dists \o inner_pairs(chosen_vertices, i, r.dists)
            /\ i' = i + 1
            /\ UNCHANGED <<pc, panic_at>>
       ELSE /\ panic("bfs_loop")
            /\ UNCHANGED <<shortest_dists, i>>
    /\ UNCHANGED <<edges, adjacency_list, weighted_adj_list, overflow_checks>>
    /\ UNCHANGED engine_vars
    /\ UNCHANGED <<num_vertices, vertices, dijkstras_shortest_dists, bfs_stats,
                   dijkstras_stats>>

run_random_test_bfs_return ==
    /\ pc = "bfs_loop"
    /\ i >= num_vertices
    /\ pc' = "bfs_stats"
    /\ UNCHANGED <<edges, adjacency_list, weighted_adj_list, overflow_checks, panic_at>>
    /\ UNCHANGED engine_vars
    /\ UNCHANGED harness_vars

run_random_test_dijkstras_assert ==
    /\ pc = "run_random_test_dijkstras"
    /\ IF sample_fits(num_vertices, weighted_adj_list)
       THEN pc' = "dj_shuffle" /\ UNCHANGED panic_at
       ELSE panic("run_random_test_dijkstras")
    /\ UNCHANGED <<edges, adjacency_list, weighted_adj_list, overflow_checks>>
    /\ UNCHANGED engine_vars
    /\ UNCHANGED harness_vars

run_random_test_dijkstras_shuffle ==
    /\ pc = "dj_shuffle"
    /\ \E p \in shuffles(weighted_adj_list) :
        /\ vertices' = p
        /\ IF num_vertices <= Len(p)
           THEN pc' = "dj_loop" /\ UNCHANGED panic_at
           ELSE panic("dj_shuffle")
    /\ i' = 0
    /\ dijkstras_shortest_dists' = <<>>
    /\ UNCHANGED <<edges, adjacency_list, weighted_adj_list, overflow_checks>>
    /\ UNCHANGED engine_vars
    /\ UNCHANGED <<num_vertices, shortest_dists, bfs_stats, dijkstras_stats>>

run_random_test_dijkstras_loop ==
    /\ pc = "dj_loop"
    /\ i < num_vertices
    /\ \E r \in dijkstras(weighted_adj_list, chosen_vertices[i + 1]) :
       IF ~r.panicked /\ inner_lookups_ok(chosen_vertices, i, r.dists)
       THEN /\ dijkstras_shortest_dists' =
                   dijkstras_shortest_dists \o inner_pairs(chosen_vertices, i, r.dists)
            /\ i' = i + 1
            /\ UNCHANGED <<pc, panic_at>>
       ELSE /\ panic("dj_loop")
            /\ UNCHANGED <<dijkstras_shortest_dists, i>>
    /\ UNCHANGED <<edges, adjacency_list, weighted_adj_list, overflow_checks>>
    /\ UNCHANGED engine_vars
    /\ UNCHANGED <<num_vertices, vertices, shortest_dists, bfs_stats, dijkstras_stats>>

run_random_test_dijkstras_return ==
    /\ pc = "dj_loop"
    /\ i >= num_vertices
    /\ pc' = "dj_stats"
    /\ UNCHANGED <<edges, adjacency_list, weighted_adj_list, overflow_checks, panic_at>>
    /\ UNCHANGED engine_vars
    /\ UNCHANGED harness_vars

\* ------------------------------------------------------------------- main.rs
\* the loop `total_distance += dist` over the records; total_distance is a u32
RECURSIVE sum_distances(_, _, _)
sum_distances(sd, n, acc) ==
    IF n > Len(sd) \/ acc.panicked THEN acc
    ELSE IF u32_overflows(acc.total_distance, sd[n].distance) /\ overflow_checks
         THEN [acc EXCEPT !.panicked = TRUE]
         ELSE sum_distances(sd, n + 1,
                [acc EXCEPT !.total_distance = u32_wrapping(@, sd[n].distance)])

\* num_distances and the total the mean is computed from (the mean and the
\* standard deviation are floating-point functions of these and the records)
calc_distance_stats(sd) ==
    IF ~(Len(sd) > 0)
    THEN [panicked |-> TRUE, num_distances |-> Len(sd), total_distance |-> 0]
    ELSE [num_distances |-> Len(sd)] @@
         sum_distances(sd, 1, [panicked |-> FALSE, total_distance |-> 0])

main_bfs_stats ==
    /\ pc = "bfs_stats"
    /\ LET r == calc_distance_stats(shortest_dists) IN
       IF r.panicked
       THEN panic("bfs_stats") /\ UNCHANGED bfs_stats
       ELSE /\ bfs_stats' = <<r.num_distances, r.total_distance>>
            /\ pc' = "to_weighted"
            /\ UNCHANGED panic_at
    /\ UNCHANGED <<edges, adjacency_list, weighted_adj_list, overflow_checks>>
    /\ UNCHANGED engine_vars
    /\ UNCHANGED <<num_vertices, vertices, i, shortest_dists, dijkstras_shortest_dists,
                   dijkstras_stats>>

main_to_weighted ==
    /\ pc = "to_weighted"
    /\ weighted_adj_list' = edges_to_weighted_adjacency_list(adjacency_list)
    /\ pc' = "run_random_test_dijkstras"
    /\ UNCHANGED <<edges, adjacency_list, overflow_checks, panic_at>>
    /\ UNCHANGED engine_vars
    /\ UNCHANGED harness_vars

main_dijkstras_stats ==
    /\ pc = "dj_stats"
    /\ LET r == calc_distance_stats(dijkstras_shortest_dists) IN
       IF r.panicked
       THEN panic("dj_stats") /\ UNCHANGED dijkstras_stats
       ELSE /\ dijkstras_stats' = <<r.num_distances, r.total_distance>>
            /\ pc' = "exit"
            /\ UNCHANGED panic_at
    /\ UNCHANGED <<edges, adjacency_list, weighted_adj_list, overflow_checks>>
    /\ UNCHANGED engine_vars
    /\ UNCHANGED <<num_vertices, vertices, i, shortest_dists, dijkstras_shortest_dists,
                   bfs_stats>>

NextMain ==
    \/ run_random_test_bfs_assert
    \/ run_random_test_bfs_shuffle
    \/ run_random_test_bfs_loop
    \/ run_random_test_bfs_return
    \/ main_bfs_stats
    \/ main_to_weighted
    \/ run_random_test_dijkstras_assert
    \/ run_random_test_dijkstras_shuffle
    \/ run_random_test_dijkstras_loop
    \/ run_random_test_dijkstras_return
    \/ main_dijkstras_stats

HarnessEntered ==
    /\ vertices = <<>> /\ i = 0
    /\ shortest_dists = <<>> /\ dijkstras_shortest_dists = <<>>
    /\ bfs_stats = <<>> /\ dijkstras_stats = <<>>
    /\ panic_at = ""

\* main, after the edge list is read and the adjacency list built, with the
\* sample size an input
InitMain ==
    /\ edges \in SeqsUpTo(Vertex \X Vertex, MaxEdges)
    /\ adjacency_list = edges_to_adjacency_list(edges)
    /\ weighted_adj_list = EmptyMap
    /\ overflow_checks \in BOOLEAN
    /\ num_vertices \in 0..(Cardinality(DOMAIN adjacency_list) + 1)
    /\ pc = "run_random_test_bfs"
    /\ HarnessEntered
    /\ EngineIdle

SpecMain == InitMain /\ [][NextMain]_vars

\* either sampling function called on a graph built from an edge list:
\* run_random_test_bfs on the adjacency list, or run_random_test_dijkstras on
\* the weighted adjacency list derived from it
\* (the functions receive the adjacency list only, so the edge list it was
\* built from is not part of their state)
InitHarness ==
    /\ edges = <<>>
    /\ \E es \in SeqsUpTo(Vertex \X Vertex, MaxEdges) :
          adjacency_list = edges_to_adjacency_list(es)
    /\ overflow_checks \in BOOLEAN
    /\ num_vertices \in 0..(Cardinality(DOMAIN adjacency_list) + 1)
    /\ \E entry \in {"run_random_test_bfs", "run_random_test_dijkstras"} :
        /\ pc = entry
        /\ weighted_adj_list = IF entry = "run_random_test_bfs" THEN EmptyMap
                               ELSE edges_to_weighted_adjacency_list(adjacency_list)
    /\ HarnessEntered
    /\ EngineIdle

\* the steps of the two sampling functions alone
NextHarness ==
    \/ run_random_test_bfs_assert
    \/ run_random_test_bfs_shuffle
    \/ run_random_test_bfs_loop
    \/ run_random_test_bfs_return
    \/ run_random_test_dijkstras_assert
    \/ run_random_test_dijkstras_shuffle
    \/ run_random_test_dijkstras_loop
    \/ run_random_test_dijkstras_return

SpecHarness == InitHarness /\ [][NextHarness]_vars

\* the graph of test_algorithm: 4 vertices, 5 edges
DiamondEdges == <<<<1, 2>>, <<2, 3>>, <<1, 4>>, <<2, 4>>, <<3, 4>>>>

InitDiamond ==
    /\ edges = DiamondEdges
    /\ adjacency_list = edges_to_adjacency_list(edges)
    /\ weighted_adj_list = EmptyMap
    /\ overflow_checks \in BOOLEAN
    /\ num_vertices \in 0..(Cardinality(DOMAIN adjacency_list) + 1)
    /\ pc = "run_random_test_bfs"
    /\ HarnessEntered
    /\ EngineIdle

SpecDiamond == InitDiamond /\ [][NextMain]_vars

\* ------------------------------------------------------------------ claims
\* reference definitions used by the claims only
Min(S) == CHOOSE x \in S : \A y \in S : x <= y

RECURSIVE Reach(_, _)
Reach(S, es) ==
    LET T == S \cup {e[2] : e \in {x \in Range(es) : x[1] \in S}}
               \cup {e[1] : e \in {x \in Range(es) : x[2] \in S}} IN
    IF T = S THEN S ELSE Reach(T, es)

\* u and v are joined by a path of the undirected edge list
Connected(u, v) == v \in Reach({u}, edges)

ArcsOf(wadj) ==
    UNION {{<<k, wadj[k][n][1], wadj[k][n][2]>> : n \in 1..Len(wadj[k])} : k \in DOMAIN wadj}

RECURSIVE Relaxed(_, _, _)
Relaxed(D, arcs, k) ==
    IF k = 0 THEN D
    ELSE Relaxed([v \in DOMAIN D |->
                    Min({D[v]} \cup {D[a[1]] + a[3] :
                        a \in {x \in arcs : x[2] = v /\ D[x[1]] < U32_MAX}})],
                 arcs, k - 1)

\* least cost of a path from start to each vertex, U32_MAX where there is none
TrueCost(wadj, start) ==
    LET V == DOMAIN wadj \cup {start} IN
    Relaxed([v \in V |-> IF v = start THEN 0 ELSE U32_MAX], ArcsOf(wadj), Cardinality(V))

\* C1: for a graph built by edges_to_adjacency_list and a start vertex that is
\* a key, dijkstras on the derived weighted adjacency returns the same table as
\* breadth_first_search: same keys, same distance for every vertex, U32_MAX
\* for the unreachable ones.
C1_Equivalence ==
    pc = "done" => /\ panic_at = ""
                   /\ DOMAIN dj_dists = DOMAIN dists
                   /\ \A v \in DOMAIN dists : dj_dists[v] = dists[v]

\* a finished pair of runs on a graph with a self-loop that reaches a
\* neighbour and leaves a vertex unreachable
C1_Witness ==
    /\ pc = "done"
    /\ panic_at = ""
    /\ \E v \in DOMAIN dists : dists[v] = U32_MAX
    /\ \E v \in DOMAIN dists : dists[v] = 1
    /\ \E n \in 1..Len(edges) : edges[n][1] = edges[n][2]

\* C7: for a graph built from an undirected edge list and vertices u, v joined
\* by a path, the distance the run from u records for v equals the distance a
\* run from v records for u, for breadth_first_search and for dijkstras (under
\* every pop order).
C7_Symmetry ==
    (pc = "done" /\ panic_at = "") =>
        \A v \in DOMAIN adjacency_list :
            Connected(start_node, v) =>
                /\ ~breadth_first_search(adjacency_list, v).panicked
                /\ dists[v] = breadth_first_search(adjacency_list, v).dists[start_node]
                /\ \A r \in dijkstras(weighted_adj_list, v) :
                      ~r.panicked /\ dj_dists[v] = r.dists[start_node]

\* a finished run that reaches a vertex two hops away
C7_Witness ==
    /\ pc = "done"
    /\ panic_at = ""
    /\ \E v \in DOMAIN dists : v # start_node /\ Connected(start_node, v) /\ dists[v] = 2

\* C8: a vertex without a key (the start vertex, or a vertex named in a
\* neighbour list) counts as having no neighbours; both engines return a table
\* and never abort.
C8_MissingKeyNeverAborts ==
    /\ panic_at = ""
    /\ pc = "done" => DOMAIN dists = DOMAIN dj_dists

\* a step of the loop of dijkstras (the only step that changes p_queue) whose
\* popped entry costs more than the distance recorded for its vertex leaves
\* the table alone and only removes that entry
StaleNoop ==
    (pc = "dijkstras" /\ p_queue' # p_queue /\ popped'[2] > dj_dists[popped'[1]]) =>
        /\ dj_dists' = dj_dists
        /\ p_queue' = p_queue (-) SetToBag({popped'})

\* C10: with non-negative weights, when the priority queue has emptied the
\* table holds the least path cost of every vertex and U32_MAX for every
\* unreachable one, whatever the order of pops among equal costs; and a pop of
\* an entry dearer than the recorded distance of its vertex changes no distance
\* and pushes nothing.
C10_Dijkstra ==
    /\ [](pc = "done" /\ panic_at \notin {"dijkstras", "both"}
            => dj_dists = TrueCost(weighted_adj_list, start_node))
    /\ [][StaleNoop]_vars

\* a finished run over a zero-weight arc whose last pop was a stale entry and
\* which leaves a vertex unreachable
C10_Witness ==
    /\ pc = "done"
    /\ panic_at = ""
    /\ popped # NoEntry
    /\ popped[2] > dj_dists[popped[1]]
    /\ \E a \in ArcsOf(weighted_adj_list) : a[3] = 0
    /\ \E v \in DOMAIN dj_dists : dj_dists[v] = U32_MAX

\* ---------------------------------------------------- claims on the harness
RECURSIVE ExactSum(_, _)
ExactSum(sd, n) == IF n = 0 THEN 0 ELSE ExactSum(sd, n - 1) + sd[n].distance

PairSet(sd) == {{sd[n].node_1, sd[n].node_2} : n \in 1..Len(sd)}

\* place of vertex v in the chosen sample (0 when it is not sampled)
SamplePlace(v) ==
    IF \E n \in 1..num_vertices : vertices[n] = v
    THEN CHOOSE n \in 1..num_vertices : vertices[n] = v
    ELSE 0

\* what a sampling run of size num_vertices must have returned
SampleRecordsOK(sd) ==
    /\ 2 * Len(sd) = num_vertices * (num_vertices - 1)
    /\ \A n \in 1..Len(sd) : sd[n].node_1 # sd[n].node_2
    /\ \A n, m \in 1..Len(sd) :
          n # m => {sd[n].node_1, sd[n].node_2} # {sd[m].node_1, sd[m].node_2}
    /\ \A n \in 1..Len(sd) :
          /\ SamplePlace(sd[n].node_1) > 0
          /\ SamplePlace(sd[n].node_1) < SamplePlace(sd[n].node_2)

\* C2: for a sample size k within the number of vertices and every shuffle,
\* run_random_test_bfs and run_random_test_dijkstras return exactly k*(k-1)/2
\* records, none with node_1 = node_2, no unordered pair twice, and node_1
\* earlier in the sample order than node_2.
C2_SamplePairs ==
    /\ pc = "bfs_stats" => SampleRecordsOK(shortest_dists)
    /\ pc = "dj_stats" => SampleRecordsOK(dijkstras_shortest_dists)

\* run_random_test_dijkstras has returned the three records of a sample of
\* three vertices
C2_Witness ==
    /\ pc = "dj_stats"
    /\ num_vertices = 3
    /\ Len(dijkstras_shortest_dists) = 3

\* C3: a sample size above the number of keys aborts at the assert, before any
\* shuffle or single-source run, and no record is returned; a sample size equal
\* to the number of keys is accepted: no step of the sampling run aborts, and
\* the outer loop runs over the whole shuffled key list up to its return.
C3_OversizedSample ==
    /\ num_vertices > Cardinality(DOMAIN adjacency_list) =>
          /\ pc \in {"run_random_test_bfs", "run_random_test_dijkstras", "panicked"}
          /\ pc = "panicked" =>
                panic_at \in {"run_random_test_bfs", "run_random_test_dijkstras"}
          /\ vertices = <<>>
          /\ i = 0
          /\ shortest_dists = <<>>
          /\ dijkstras_shortest_dists = <<>>
    /\ num_vertices = Cardinality(DOMAIN adjacency_list) =>
          /\ panic_at \notin {"run_random_test_bfs", "bfs_shuffle", "bfs_loop",
                              "run_random_test_dijkstras", "dj_shuffle", "dj_loop"}
          /\ i <= num_vertices
          /\ pc \in {"bfs_loop", "dj_loop"} => Len(vertices) = num_vertices

\* run_random_test_dijkstras aborted on an oversized sample
C3_Witness ==
    /\ pc = "panicked"
    /\ panic_at = "run_random_test_dijkstras"
    /\ num_vertices > Cardinality(DOMAIN weighted_adj_list)
    /\ Cardinality(DOMAIN weighted_adj_list) = 3

\* C4: calc_distance_stats aborts on an empty sequence of records and returns
\* no tuple; on every non-empty sequence it returns a count equal to the number
\* of records.
C4_StatsCount ==
    /\ (pc = "panicked" /\ panic_at = "bfs_stats") => shortest_dists = <<>>
    /\ (pc = "panicked" /\ panic_at = "dj_stats") => dijkstras_shortest_dists = <<>>
    /\ bfs_stats # <<>> =>
          shortest_dists # <<>> /\ bfs_stats[1] = Len(shortest_dists)
    /\ dijkstras_stats # <<>> =>
          dijkstras_shortest_dists # <<>>
          /\ dijkstras_stats[1] = Len(dijkstras_shortest_dists)

\* C5: on the graph with edges (1,2),(2,3),(1,4),(2,4),(3,4) a BFS sampling run
\* of size 4 returns, for every sample order, 6 records whose distances sum to
\* 7: the pair {1,3} at distance 2 and the five others at distance 1; the mean
\* total/6 is within 0.01 of 1.1667 (|10000*total - 6*11667| < 6*100).
C5_Diamond ==
    (pc = "bfs_stats" /\ num_vertices = 4) =>
        /\ Len(shortest_dists) = 6
        /\ ExactSum(shortest_dists, Len(shortest_dists)) = 7
        /\ \A n \in 1..Len(shortest_dists) :
              shortest_dists[n].distance =
                 IF {shortest_dists[n].node_1, shortest_dists[n].node_2} = {1, 3}
                 THEN 2 ELSE 1
        /\ LET d == 10000 * ExactSum(shortest_dists, Len(shortest_dists)) - 6 * 11667 IN
           d < 600 /\ -d < 600

\* the run of size 4 has returned for the sample order 3, 1, 4, 2
C5_Witness ==
    /\ pc = "bfs_stats"
    /\ num_vertices = 4
    /\ vertices = <<3, 1, 4, 2>>
    /\ Len(shortest_dists) = 6

\* C6: within one run of main the Dijkstra sampling run is driven against the
\* sample chosen for the BFS sampling run, so both report distances for the
\* same set of unordered vertex pairs.
C6_SameSample ==
    pc \in {"dj_stats", "exit"} =>
        PairSet(dijkstras_shortest_dists) = PairSet(shortest_dists)

\* C9: for a non-empty sequence of records with distances 0..U32_MAX, the
\* total calc_distance_stats divides by the count is the exact sum of the
\* distances: the accumulation neither aborts nor wraps.
C9_ExactTotal ==
    /\ bfs_stats # <<>> =>
          bfs_stats[2] = ExactSum(shortest_dists, Len(shortest_dists))
    /\ dijkstras_stats # <<>> =>
          dijkstras_stats[2] =
             ExactSum(dijkstras_shortest_dists, Len(dijkstras_shortest_dists))
    /\ (pc = "panicked" /\ panic_at = "bfs_stats") => Len(shortest_dists) = 0
    /\ (pc = "panicked" /\ panic_at = "dj_stats") => Len(dijkstras_shortest_dists) = 0

\* ------------------------------------------------- claims on the BFS loop
\* a sequential program: a step that can be taken is eventually taken
NextBFS ==
    \/ breadth_first_search_loop
    \/ breadth_first_search_return

\* the breadth_first_search call alone
FairSpec == Init /\ [][NextBFS]_vars /\ WF_vars(NextBFS)

\* the vertices joined to a vertex of S by an edge of the undirected edge list
EdgeNeighbours(S) ==
    {edges[n][2] : n \in {m \in 1..Len(edges) : edges[m][1] \in S}}
        \cup {edges[n][1] : n \in {m \in 1..Len(edges) : edges[m][2] \in S}}

\* hops from the vertices of layer (k hops away, seen = all nearer layers and
\* this one) to v; U32_MAX when no path leads to v
RECURSIVE HopsFrom(_, _, _, _)
HopsFrom(layer, seen, k, v) ==
    IF v \in layer THEN k
    ELSE LET next == EdgeNeighbours(layer) \ seen IN
         IF next = {} THEN U32_MAX
         ELSE HopsFrom(next, seen \cup next, k + 1, v)

\* least number of hops from start_node to v
TrueHops(v) == HopsFrom({start_node}, {start_node}, 0, v)

\* the vertices a loop iteration pushed at the back of the queue
Enqueued == SubSeq(queue', Len(queue), Len(queue'))

InBFS == pc = "breadth_first_search"

\* every queued vertex carries its final distance, no vertex is queued twice
\* and the queue is in non-decreasing order of distance
QueueFinal ==
    InBFS =>
        /\ \A n \in 1..Len(queue) : dists[queue[n]] = TrueHops(queue[n])
        /\ \A n, m \in 1..Len(queue) : n # m => queue[n] # queue[m]
        /\ \A n, m \in 1..Len(queue) : n < m => dists[queue[n]] <= dists[queue[m]]

\* a step of the loop leaves every recorded distance alone, queues only
\* vertices that had no distance yet (so never the start vertex, and none
\* twice) and moves on to a front vertex that is no nearer than the last one
QueueStep ==
    (InBFS /\ queue # <<>>) =>
        /\ \A v \in DOMAIN dists : dists[v] # U32_MAX => dists'[v] = dists[v]
        /\ queue' = Tail(queue) \o Enqueued
        /\ \A n \in 1..Len(Enqueued) :
              /\ Enqueued[n] # start_node
              /\ dists[Enqueued[n]] = U32_MAX
              /\ \A m \in 1..Len(Enqueued) : n # m => Enqueued[n] # Enqueued[m]
        /\ queue' # <<>> => dists[Head(queue)] <= dists'[Head(queue')]

\* C11: in every state of a breadth_first_search run each queued vertex has its
\* true shortest hop distance recorded and that distance never changes again;
\* so every vertex is enqueued at most once (the start vertex never again, self
\* loops and parallel edges included), vertices leave the queue in
\* non-decreasing order of distance, and the loop ends with the queue empty.
C11_BFSLayering ==
    /\ []QueueFinal
    /\ [][QueueStep]_vars
    /\ [](pc = "call_dijkstras" => queue = <<>> /\ panic_at = "")
    /\ <>(pc # "breadth_first_search")

\* the loop holds a vertex one hop away in its queue, on a graph where the
\* start vertex has a self-loop
C11_Witness ==
    /\ InBFS
    /\ queue # <<>>
    /\ dists[Head(queue)] = 1
    /\ \E n \in 1..Len(edges) : edges[n] = <<start_node, start_node>>

====
